---- MODULE Spec2Model ----
(***************************************************************************)
(* A model of twitchchat's MpscWriter (src/writer/mpsc_writer.rs): a byte  *)
(* buffer in front of the sending half of a bounded multi-producer channel *)
(* of Box<[u8]> elements, usable through std::io::Write and through        *)
(* futures_lite::AsyncWrite.                                               *)
(*                                                                         *)
(* The channel (crate::channel) and the Encodable trait live outside       *)
(* mpsc_writer.rs; they are modelled from their documented contract: a     *)
(* FIFO queue of bounded capacity whose try_send answers Ok, Full (the     *)
(* element is handed back) or Closed, and an encoder that appends bytes    *)
(* to the buffer and then reports success or failure.                      *)
(***************************************************************************)
EXTENDS Integers, Sequences, FiniteSets, TLC

\* ---------------------------------------------------------------- bounds
MaxWriters == 2     \* writer instances: the first one and its clones
Cap == 2            \* capacity of the bounded channel
MaxBytes == 2       \* bytes held at once, in all the buffers and in the channel

Writers == 1..MaxWriters
\* the byte values the model tells apart
Bytes == {1, 2}

RECURSIVE SeqsUpTo(_)
\* every byte sequence of length <= n
SeqsUpTo(n) ==
    IF n = 0 THEN {<<>>}
    ELSE LET shorter == SeqsUpTo(n - 1)
         IN  shorter \cup {Append(s, b) : s \in {t \in shorter : Len(t) = n - 1}, b \in Bytes}

\* the handle of the one channel of the model, and the null handle of a writer
\* slot that holds no writer yet
Chan == "chan"
NoChannel == "none"

VARIABLES
    buf,        \* buf[w]: MpscWriter::buf of writer w
    channel,    \* channel[w]: MpscWriter::channel of writer w (NoChannel: no writer yet)
    queue,      \* the elements in flight in the channel, oldest first
    closed,     \* the channel is permanently closed
    accepted,   \* history: the batches the channel accepted that the consumer has not
                \* taken yet, in the order it accepted them
    unsent,     \* history: unsent[w] is what was written to w since the last send
                \* attempt of w that the channel accepted or that dropped its bytes
    retained,   \* history: retained[w] is what a send attempt of w that found the
                \* channel full put back, while nothing was written to w since
    seenClosed, \* history: some send attempt has found the channel closed
    owed,       \* history: owed[w].bytes is what was written to w and not accepted by
                \* the channel yet; Lost once a send attempt of w found it closed
    last        \* the last call: its name, writer, argument, result and send outcome

vars == <<buf, channel, queue, closed, accepted, unsent, retained, seenClosed, owed, last>>

\* ------------------------------------------------------- result values
Ok == "Ok"                      \* Ok(..) and Poll::Ready(Ok(..))
Pending == "Pending"            \* Poll::Pending
WriterClosed == "WriterClosed"  \* io::Error::new(UnexpectedEof, "writer was closed")
\* the errors an Encodable may return
EncodeErrors == {"EncodeErrA", "EncodeErrB"}

\* the outcomes of Sender::try_send, and the mark of a call that made no attempt
SendOk == "SendOk"
SendFull == "SendFull"
SendClosed == "SendClosed"
NoSend == "NoSend"

NotRetained == [full |-> FALSE, bytes |-> <<>>]

\* what a writer owes once a send attempt dropped its bytes: no longer accounted for
Lost == [lost |-> TRUE, bytes |-> <<>>]
\* what a writer owes while no send attempt of it found the channel closed
Owes(b) == [lost |-> FALSE, bytes |-> b]

\* a call record: op by writer w with the bytes arg returned res; n is the count a
\* write returned, tag the outcome of the send attempt, src the source of a clone,
\* enc what the encoder answered, kept whether w held retained bytes at the call,
\* seen whether an earlier send attempt had found the channel closed
Call(op, w, arg, res, n, tag, src, enc, kept, seen) ==
    [op |-> op, w |-> w, arg |-> arg, res |-> res, n |-> n, tag |-> tag,
     src |-> src, enc |-> enc, kept |-> kept, seen |-> seen]

RECURSIVE Held(_)
\* the bytes the buffers of writers 1..w hold
Held(w) == IF w = 0 THEN 0 ELSE Len(buf[w]) + Held(w - 1)

RECURSIVE InFlight(_)
\* the bytes the elements of the sequence q hold
InFlight(q) == IF q = <<>> THEN 0 ELSE Len(Head(q)) + InFlight(Tail(q))

\* the byte sequences of each length up to MaxBytes
UpTo == [n \in 0..MaxBytes |-> SeqsUpTo(n)]

\* the byte sequences the model lets a writer take: those that fit in MaxBytes
Fitting == UpTo[MaxBytes - Held(MaxWriters) - InFlight(queue)]

\* ------------------------------------------------------------ the channel
\* Sender::try_send: accepted, or the element handed back by a full or closed channel
try_send(data) ==
    IF closed THEN [tag |-> SendClosed, queue |-> queue]
    ELSE IF Len(queue) >= Cap THEN [tag |-> SendFull, queue |-> queue]
    ELSE [tag |-> SendOk, queue |-> Append(queue, data)]

\* Encodable::encode(&self, &mut buf): appends msg.bytes, then returns msg.res
encodable_encode(b, msg) == [buf |-> b \o msg.bytes, res |-> msg.res]

\* ------------------------------------------------------------- MpscWriter
\* MpscWriter::new
new(c) == [buf |-> <<>>, channel |-> c]

\* a derived Clone: the buffer is copied along with the handle
clone_copiesBuf(w) == [buf |-> buf[w], channel |-> channel[w]]

\* Clone for MpscWriter
clone(w) == [buf |-> <<>>, channel |-> channel[w]]

\* write that assigns the slice instead of extending the buffer with it
write_overwrites(w, data) == [buf |-> data, res |-> Ok, n |-> Len(data)]

\* Write::write
write(w, data) == [buf |-> buf[w] \o data, res |-> Ok, n |-> Len(data)]

\* flush that returns early, without a send attempt, when the buffer is empty
flush_buf_skipsEmpty(b) ==
    LET r == try_send(b)
    IN  CASE b = <<>>           -> [buf |-> <<>>, queue |-> queue, res |-> Ok, tag |-> NoSend]
          [] r.tag = SendOk     -> [buf |-> <<>>, queue |-> r.queue, res |-> Ok, tag |-> r.tag]
          [] r.tag = SendClosed -> [buf |-> <<>>, queue |-> r.queue, res |-> WriterClosed, tag |-> r.tag]
          [] r.tag = SendFull   -> [buf |-> b, queue |-> r.queue, res |-> Ok, tag |-> r.tag]

\* flush that puts back only a part of the element a full channel handed back
flush_buf_fullPartial(b) ==
    LET r == try_send(b)
    IN  CASE r.tag = SendOk     -> [buf |-> <<>>, queue |-> r.queue, res |-> Ok, tag |-> r.tag]
          [] r.tag = SendClosed -> [buf |-> <<>>, queue |-> r.queue, res |-> WriterClosed, tag |-> r.tag]
          [] r.tag = SendFull   -> [buf |-> IF b = <<>> THEN b ELSE Tail(b), queue |-> r.queue,
                                    res |-> Ok, tag |-> r.tag]

\* Write::flush on a writer whose buffer holds b
flush_buf(b) ==
    LET data == b                           \* std::mem::take(&mut self.buf)
        r == try_send(data)
    IN  CASE r.tag = SendOk     -> [buf |-> <<>>, queue |-> r.queue, res |-> Ok, tag |-> r.tag]
          [] r.tag = SendClosed -> [buf |-> <<>>, queue |-> r.queue, res |-> WriterClosed, tag |-> r.tag]
          [] r.tag = SendFull   -> [buf |-> data, queue |-> r.queue, res |-> Ok, tag |-> r.tag]

\* flush that forgets to put the element back when the channel is full
flush_fullDrops(w) ==
    LET r == try_send(buf[w])
    IN  [buf |-> <<>>, queue |-> r.queue,
         res |-> IF r.tag = SendClosed THEN WriterClosed ELSE Ok, tag |-> r.tag]

\* flush that sends a copy of the buffer and leaves the buffer as it was
flush_keepsBuf(w) ==
    LET r == try_send(buf[w])
    IN  [buf |-> IF r.tag = SendClosed THEN <<>> ELSE buf[w], queue |-> r.queue,
         res |-> IF r.tag = SendClosed THEN WriterClosed ELSE Ok, tag |-> r.tag]

\* flush that reports a full channel as an error
flush_fullFails(w) ==
    LET r == try_send(buf[w])
    IN  [buf |-> IF r.tag = SendFull THEN buf[w] ELSE <<>>, queue |-> r.queue,
         res |-> IF r.tag = SendOk THEN Ok ELSE WriterClosed, tag |-> r.tag]

\* flush that sends the buffer left behind by mem::take, which is empty
flush_sendsEmpty(w) ==
    LET r == try_send(<<>>)
    IN  [buf |-> IF r.tag = SendFull THEN buf[w] ELSE <<>>, queue |-> r.queue,
         res |-> IF r.tag = SendClosed THEN WriterClosed ELSE Ok, tag |-> r.tag]

flush(w) == flush_buf(buf[w])

\* encode without the `?`: the encoder's error is ignored and the flush runs
encode_ignoresError(w, msg) == flush_buf(encodable_encode(buf[w], msg).buf)

\* encode that sends the encoded message by itself and leaves the buffer alone
encode_sendsOnlyMsg(w, msg) ==
    LET e == encodable_encode(<<>>, msg)
        r == try_send(e.buf)
    IN  IF e.res # Ok
        THEN [buf |-> buf[w] \o e.buf, queue |-> queue, res |-> e.res, tag |-> NoSend]
        ELSE [buf |-> IF r.tag = SendFull THEN buf[w] \o e.buf ELSE buf[w], queue |-> r.queue,
              res |-> IF r.tag = SendClosed THEN WriterClosed ELSE Ok, tag |-> r.tag]

\* encode that truncates the buffer to its old length when the encoder fails
encode_rollsBack(w, msg) ==
    LET e == encodable_encode(buf[w], msg)
    IN  IF e.res # Ok
        THEN [buf |-> buf[w], queue |-> queue, res |-> e.res, tag |-> NoSend]
        ELSE flush_buf(e.buf)

\* MpscWriter::encode
encode(w, msg) ==
    LET e == encodable_encode(buf[w], msg)
    IN  IF e.res # Ok
        THEN [buf |-> e.buf, queue |-> queue, res |-> e.res, tag |-> NoSend]   \* the `?`
        ELSE flush_buf(e.buf)

\* poll_write that keeps its bytes in a buffer of its own, out of reach of flush
poll_write_ownBuffer(w, data) == [buf |-> buf[w], res |-> Ok, n |-> Len(data)]

\* AsyncWrite::poll_write
poll_write(w, data) == [buf |-> buf[w] \o data, res |-> Ok, n |-> Len(data)]

\* poll_flush that reports Ready(Ok) on a full channel and loses the element
poll_flush_fullReady(w) ==
    LET r == try_send(buf[w])
    IN  [buf |-> <<>>, queue |-> r.queue,
         res |-> IF r.tag = SendClosed THEN WriterClosed ELSE Ok, tag |-> r.tag]

\* poll_flush that puts the element back when the channel is closed, too
poll_flush_closedRestores(w) ==
    LET r == try_send(buf[w])
    IN  [buf |-> IF r.tag = SendOk THEN <<>> ELSE buf[w], queue |-> r.queue,
         res |-> CASE r.tag = SendOk -> Ok [] r.tag = SendFull -> Pending
                   [] OTHER -> WriterClosed,
         tag |-> r.tag]

\* poll_flush that answers Pending on a full channel without putting the element back
poll_flush_fullLoses(w) ==
    LET r == try_send(buf[w])
    IN  [buf |-> <<>>, queue |-> r.queue,
         res |-> CASE r.tag = SendOk -> Ok [] r.tag = SendFull -> Pending
                   [] OTHER -> WriterClosed,
         tag |-> r.tag]

\* poll_flush that answers Pending after an accepted send as well
poll_flush_staysPending(w) ==
    LET r == try_send(buf[w])
    IN  [buf |-> IF r.tag = SendFull THEN buf[w] ELSE <<>>, queue |-> r.queue,
         res |-> IF r.tag = SendClosed THEN WriterClosed ELSE Pending, tag |-> r.tag]

\* AsyncWrite::poll_flush
poll_flush(w) ==
    LET data == buf[w]                      \* std::mem::take(&mut this.buf)
        r == try_send(data)
    IN  CASE r.tag = SendOk     -> [buf |-> <<>>, queue |-> r.queue, res |-> Ok, tag |-> r.tag]
          [] r.tag = SendFull   -> [buf |-> data, queue |-> r.queue, res |-> Pending, tag |-> r.tag]
          [] r.tag = SendClosed -> [buf |-> <<>>, queue |-> r.queue, res |-> WriterClosed, tag |-> r.tag]

\* poll_close that swallows the closed channel and reports Ready(Ok)
poll_close_swallows(w) ==
    LET r == try_send(buf[w])
    IN  [buf |-> IF r.tag = SendFull THEN buf[w] ELSE <<>>, queue |-> r.queue,
         res |-> IF r.tag = SendFull THEN Pending ELSE Ok, tag |-> r.tag]

\* poll_close that reports Ready(Ok) when the channel is full, as a shutdown would
poll_close_fullReady(w) ==
    LET r == try_send(buf[w])
    IN  [buf |-> IF r.tag = SendFull THEN buf[w] ELSE <<>>, queue |-> r.queue,
         res |-> IF r.tag = SendClosed THEN WriterClosed ELSE Ok, tag |-> r.tag]

\* AsyncWrite::poll_close
poll_close(w) == poll_flush(w)

\* ---------------------------------------------------------------- actions
Init ==
    /\ buf = [w \in Writers |-> IF w = 1 THEN new(Chan).buf ELSE <<>>]
    /\ channel = [w \in Writers |-> IF w = 1 THEN new(Chan).channel ELSE NoChannel]
    /\ queue = <<>>
    /\ closed = FALSE
    /\ accepted = <<>>
    /\ unsent = [w \in Writers |-> <<>>]
    /\ retained = [w \in Writers |-> NotRetained]
    /\ seenClosed = FALSE
    /\ owed = [w \in Writers |-> Owes(<<>>)]
    /\ last = Call("new", 1, <<>>, Ok, 0, NoSend, 0, Ok, FALSE, FALSE)

\* a clone that takes the source's buffer along, leaving the source without it
Clone_movesBuf(src, dst) ==
    /\ channel[src] # NoChannel
    /\ channel[dst] = NoChannel
    /\ buf' = [buf EXCEPT ![dst] = buf[src], ![src] = <<>>]
    /\ channel' = [channel EXCEPT ![dst] = clone(src).channel]
    /\ last' = Call("clone", dst, <<>>, Ok, 0, NoSend, src, Ok, FALSE, FALSE)
    /\ UNCHANGED <<queue, closed, accepted, unsent, retained, seenClosed, owed>>

\* let dst = src.clone()
Clone(src, dst) ==
    /\ channel[src] # NoChannel
    /\ channel[dst] = NoChannel
    /\ buf' = [buf EXCEPT ![dst] = clone(src).buf]
    /\ channel' = [channel EXCEPT ![dst] = clone(src).channel]
    /\ last' = Call("clone", dst, <<>>, Ok, 0, NoSend, src, Ok, FALSE, FALSE)
    /\ UNCHANGED <<queue, closed, accepted, unsent, retained, seenClosed, owed>>

\* the effect of a write call on w that returned r
Wrote(op, w, data, r) ==
    /\ buf' = [buf EXCEPT ![w] = r.buf]
    /\ unsent' = [unsent EXCEPT ![w] = @ \o data]
    /\ retained' = [retained EXCEPT ![w] = NotRetained]
    /\ owed' = [owed EXCEPT ![w] = IF @ = Lost THEN Lost ELSE Owes(@.bytes \o data)]
    /\ last' = Call(op, w, data, r.res, r.n, NoSend, 0, Ok, FALSE, FALSE)
    /\ UNCHANGED <<channel, queue, closed, accepted, seenClosed>>

Write(w, data) ==
    /\ channel[w] # NoChannel
    /\ Wrote("write", w, data, write(w, data))

PollWrite(w, data) ==
    /\ channel[w] # NoChannel
    /\ Wrote("poll_write", w, data, poll_write(w, data))

\* the effect of a flushing call on w that returned r. The call first appended arg
\* to the buffer (encode only, with the encoder answering enc); when it went on to a
\* send attempt, the channel's answer for the buffer it then held is `out`.
Flushed(op, w, arg, enc, r) ==
    LET held == buf[w] \o arg
        out == IF enc = Ok THEN try_send(held).tag ELSE NoSend
    IN  /\ buf' = [buf EXCEPT ![w] = r.buf]
        /\ queue' = r.queue
        /\ accepted' = IF out = SendOk THEN Append(accepted, held) ELSE accepted
        /\ unsent' = [unsent EXCEPT ![w] =
                         IF out \in {SendOk, SendClosed} THEN <<>> ELSE @ \o arg]
        /\ retained' = [retained EXCEPT ![w] =
                           CASE out = SendFull -> [full |-> TRUE, bytes |-> held]
                             [] out = SendOk -> NotRetained
                             [] out = SendClosed -> NotRetained
                             [] OTHER -> IF op = "encode" THEN NotRetained ELSE @]
        /\ seenClosed' = (seenClosed \/ out = SendClosed)
        /\ owed' = [owed EXCEPT ![w] =
                       CASE @ = Lost \/ out = SendClosed -> Lost
                         [] out = SendOk -> Owes(<<>>)
                         [] OTHER -> Owes(@.bytes \o arg)]
        /\ last' = Call(op, w, arg, r.res, 0, r.tag, 0, enc,
                         retained[w].full /\ retained[w].bytes # <<>>, seenClosed)
        /\ UNCHANGED <<channel, closed>>

Flush(w) ==
    /\ channel[w] # NoChannel
    /\ Flushed("flush", w, <<>>, Ok, flush(w))

PollFlush(w) ==
    /\ channel[w] # NoChannel
    /\ Flushed("poll_flush", w, <<>>, Ok, poll_flush(w))

PollClose(w) ==
    /\ channel[w] # NoChannel
    /\ Flushed("poll_close", w, <<>>, Ok, poll_close(w))

Encode(w, msg) ==
    /\ channel[w] # NoChannel
    /\ Flushed("encode", w, msg.bytes, msg.res, encode(w, msg))

\* the consumer takes the oldest element of the channel
Recv ==
    /\ queue # <<>>
    /\ queue' = Tail(queue)
    /\ accepted' = IF accepted # <<>> THEN Tail(accepted) ELSE accepted
    /\ last' = Call("recv", 0, Head(queue), Ok, 0, NoSend, 0, Ok, FALSE, FALSE)
    /\ UNCHANGED <<buf, channel, closed, unsent, retained, seenClosed, owed>>

\* the receiving half goes away: the channel is closed for good
Close ==
    /\ ~closed
    /\ closed' = TRUE
    /\ last' = Call("close", 0, <<>>, Ok, 0, NoSend, 0, Ok, FALSE, FALSE)
    /\ UNCHANGED <<buf, channel, queue, accepted, unsent, retained, seenClosed, owed>>

Next ==
    \/ \E src \in Writers, dst \in Writers : Clone(src, dst)
    \/ \E w \in Writers, data \in Fitting : Write(w, data)
    \/ \E w \in Writers, data \in Fitting : PollWrite(w, data)
    \/ \E w \in Writers : Flush(w)
    \/ \E w \in Writers : PollFlush(w)
    \/ \E w \in Writers : PollClose(w)
    \/ \E w \in Writers, b \in Fitting, res \in {Ok} \cup EncodeErrors :
           Encode(w, [bytes |-> b, res |-> res])
    \/ Recv
    \/ Close

Spec == Init /\ [][Next]_vars

\* the consumer keeps draining the channel and every caller of poll_flush polls again
SpecFair ==
    /\ Spec
    /\ WF_vars(Recv)
    /\ \A w \in Writers : WF_vars(PollFlush(w))

\* ----------------------------------------------------------------- claims
FlushCalls == {"flush", "poll_flush"}
SendCalls == {"flush", "poll_flush", "poll_close"}
WriteCalls == {"write", "poll_write"}

\* C1: a flush() or poll_flush() made while the channel is open and has room leaves
\* the writer's buffer empty and appends exactly one element to the channel, equal to
\* the whole buffer held before the call, which is everything written to the writer
\* since its previous accepted flush, in write order.
C1_FlushDelivers ==
    [][\A w \in Writers :
        (last'.op \in FlushCalls /\ last'.w = w /\ ~closed /\ Len(queue) < Cap)
        => /\ buf'[w] = <<>>
           /\ queue' = Append(queue, buf[w])
           /\ buf[w] = unsent[w]]_vars

\* two bytes written, then flushed into an open channel with room: one element <<1, 2>>
C1_Witness ==
    /\ last.op \in FlushCalls /\ last.tag = SendOk /\ ~closed
    /\ buf[last.w] = <<>>
    /\ queue # <<>> /\ queue[Len(queue)] = <<1, 2>>

\* C2: write(b) and poll_write(b) succeed in every state, report Len(b), leave the
\* buffer equal to its previous content followed by b, and leave the channel alone.
C2_WriteAppends ==
    [][\A w \in Writers :
        (last'.op \in WriteCalls /\ last'.w = w)
        => /\ last'.res = Ok
           /\ last'.n = Len(last'.arg)
           /\ buf'[w] = buf[w] \o last'.arg
           /\ queue' = queue /\ closed' = closed]_vars

\* a poll_write of <<2>> onto a buffer holding <<1>>, channel full and closed
C2_Witness ==
    /\ last.op = "poll_write" /\ last.arg = <<2>> /\ last.n = 1 /\ last.res = Ok
    /\ buf[last.w] = <<1, 2>>
    /\ closed /\ Len(queue) = Cap

\* C3: a flush attempted while the channel is at capacity leaves the buffer as it was
\* and the channel as it was, and returns at once: flush() Ok, poll_flush() Pending.
C3_FullKeepsBuffer ==
    [][\A w \in Writers :
        (last'.op \in FlushCalls /\ last'.w = w /\ ~closed /\ Len(queue) >= Cap)
        => /\ buf'[w] = buf[w]
           /\ queue' = queue
           /\ last'.res = IF last'.op = "flush" THEN Ok ELSE Pending]_vars

\* a poll_flush of <<1, 2>> that found the channel full: Pending, bytes still buffered
C3_Witness ==
    /\ last.op = "poll_flush" /\ last.tag = SendFull /\ last.res = Pending
    /\ buf[last.w] = <<1, 2>>
    /\ ~closed /\ Len(queue) = Cap

\* C4: when a flush found the channel full, nothing was written to the writer since,
\* and the next flush finds the channel open with room again, that flush succeeds,
\* empties the buffer and delivers as one element the bytes held at the first flush.
C4_RetryDelivers ==
    [][\A w \in Writers :
        (last'.op \in FlushCalls /\ last'.w = w /\ retained[w].full
            /\ ~closed /\ Len(queue) < Cap)
        => /\ last'.res = Ok
           /\ buf'[w] = <<>>
           /\ queue' = Append(queue, retained[w].bytes)]_vars

\* the retained <<1, 2>> went out with the second flush
C4_Witness ==
    /\ last.op \in FlushCalls /\ last.kept /\ last.tag = SendOk /\ last.res = Ok
    /\ buf[last.w] = <<>>
    /\ queue # <<>> /\ queue[Len(queue)] = <<1, 2>>

\* C5: once the channel is closed it stays closed, and from then on every flush(),
\* poll_flush() and poll_close() of every writer reports writer-closed and nothing is
\* added to the channel any more.
C5_ClosedIsTerminal ==
    [][closed =>
        /\ closed'
        /\ Len(queue') <= Len(queue)
        /\ (last'.op \in SendCalls => last'.res = WriterClosed /\ queue' = queue)]_vars

\* a clone is told writer-closed after an earlier call had been told so
C5_Witness ==
    /\ closed /\ last.op \in SendCalls /\ last.res = WriterClosed
    /\ last.seen /\ last.w # 1

\* C6: a flush() or poll_flush() that finds the channel closed leaves the writer's
\* buffer empty, bytes retained from a full channel included, and delivers nothing.
C6_ClosedDropsBuffer ==
    [][\A w \in Writers :
        (last'.op \in FlushCalls /\ last'.w = w /\ closed)
        => /\ buf'[w] = <<>>
           /\ queue' = queue
           /\ accepted' = accepted]_vars

\* bytes retained from a full channel were dropped by a flush that found it closed
C6_Witness ==
    /\ last.op \in FlushCalls /\ last.res = WriterClosed /\ last.kept
    /\ buf[last.w] = <<>> /\ closed

\* C7: flush(), poll_flush() and poll_close() fail exactly when the send attempt found
\* the channel closed, and then with writer-closed; a full channel gives Ok (flush)
\* or Pending (poll_flush, poll_close); write and poll_write never fail.
C7_OnlyWriterClosed ==
    [][/\ last'.op \in SendCalls =>
            /\ last'.res \in {Ok, Pending, WriterClosed}
            /\ last'.res = WriterClosed <=> closed
            /\ (~closed /\ Len(queue) >= Cap) =>
                   last'.res = IF last'.op = "flush" THEN Ok ELSE Pending
            /\ (~closed /\ Len(queue) < Cap) => last'.res = Ok
       /\ last'.op \in WriteCalls => last'.res = Ok]_vars

\* a poll_close that found the channel closed
C7_Witness ==
    /\ last.op = "poll_close" /\ last.tag = SendClosed /\ last.res = WriterClosed
    /\ closed

\* C8: clone() returns a writer with an empty buffer and the source's channel handle,
\* and changes neither the source's buffer nor any other writer nor the channel.
C8_CloneIsFresh ==
    [][\A dst \in Writers :
        (last'.op = "clone" /\ last'.w = dst)
        => /\ channel[last'.src] # NoChannel
           /\ buf'[dst] = <<>>
           /\ channel'[dst] = channel[last'.src]
           /\ \A x \in Writers \ {dst} : buf'[x] = buf[x] /\ channel'[x] = channel[x]
           /\ queue' = queue /\ closed' = closed]_vars

\* a clone taken from a writer that holds <<1, 2>>
C8_Witness ==
    /\ last.op = "clone"
    /\ buf[last.src] = <<1, 2>> /\ buf[last.w] = <<>>
    /\ channel[last.w] = channel[last.src]

\* C9: when the encoder fails, encode() returns the encoder's error, makes no send
\* attempt and adds nothing to the channel.
C9_EncodeErrorPropagates ==
    [][\A w \in Writers :
        (last'.op = "encode" /\ last'.w = w /\ last'.enc # Ok)
        => /\ last'.res = last'.enc
           /\ last'.tag = NoSend
           /\ queue' = queue
           /\ accepted' = accepted]_vars

\* a failed encode on an open, empty channel, which a flush would have fed
C9_Witness ==
    /\ last.op = "encode" /\ last.enc = "EncodeErrB" /\ last.res = "EncodeErrB"
    /\ buf[last.w] # <<>>
    /\ ~closed /\ queue = <<>>

\* C10: the elements waiting in the channel are exactly the batches the channel
\* accepted and the consumer has not taken yet, in the order they were accepted, and
\* the consumer always takes the oldest of them.
C10_InSendOrder ==
    /\ [](queue = accepted)
    /\ [][last'.op = "recv" => accepted # <<>> /\ last'.arg = Head(accepted)]_vars

\* two batches were queued, <<1>> before <<2>>; the consumer has taken <<1>>
C10_Witness ==
    /\ last.op = "recv" /\ last.arg = <<1>>
    /\ queue = <<<<2>>>>

\* a poll_flush of w returned Pending
PendingOf(w) == last.op = "poll_flush" /\ last.w = w /\ last.res = Pending
\* a poll_flush of w returned Ready, with Ok or with writer-closed
ResolvedOf(w) ==
    last.op = "poll_flush" /\ last.w = w /\ last.res \in {Ok, WriterClosed}
\* the caller of w did something else than polling the flush again
GaveUp(w) == last.w = w /\ last.op \notin {"poll_flush", "clone", "new"}
\* the channel accepted an element of another writer than w
OtherAccepted(w) == last.tag = SendOk /\ last.w # w

\* C11: a poll_flush that returned Pending and is polled again and again resolves in
\* the end, with Ready(Ok) or Ready(writer-closed), when the consumer keeps draining,
\* whatever the other writers do.
C11_PendingResolves ==
    \A w \in Writers : PendingOf(w) ~> (ResolvedOf(w) \/ GaveUp(w))

\* C11 as amended: unless the channel goes on accepting elements of other writers,
\* which take the capacity the consumer frees before the poll comes.
C11_PendingResolvesUnlessOvertaken ==
    \A w \in Writers : PendingOf(w) ~> (ResolvedOf(w) \/ GaveUp(w) \/ OtherAccepted(w))

\* a poll_flush that found room on a later poll and delivered the retained <<2, 1>>
C11_Witness ==
    /\ last.op = "poll_flush" /\ last.kept /\ last.res = Ok
    /\ queue # <<>> /\ queue[Len(queue)] = <<2, 1>>
    /\ buf[last.w] = <<>> /\ ~closed

\* C12: in every state poll_close() does to the writer and to the channel what
\* poll_flush() would do there and returns what it would return; it does not close
\* the channel and takes no writer's handle away, so writing and flushing go on.
C12_CloseIsFlush ==
    [][\A w \in Writers :
        (last'.op = "poll_close" /\ last'.w = w)
        => /\ buf'[w] = poll_flush(w).buf
           /\ queue' = poll_flush(w).queue
           /\ last'.res = poll_flush(w).res
           /\ last'.tag = poll_flush(w).tag
           /\ closed' = closed
           /\ channel' = channel
           /\ \A x \in Writers \ {w} : buf'[x] = buf[x]]_vars

\* a poll_close delivered <<1, 2>> and left the channel open
C12_Witness ==
    /\ last.op = "poll_close" /\ last.tag = SendOk /\ last.res = Ok
    /\ ~closed /\ channel[last.w] = Chan
    /\ buf[last.w] = <<>>
    /\ queue # <<>> /\ queue[Len(queue)] = <<1, 2>>

\* C13: the blocking and the cooperative interface work on one buffer and one channel.
\* write does what poll_write would do and the other way round; flush does to the
\* buffer and the channel what poll_flush would do and the other way round, and their
\* results differ only on a full channel (Ok against Pending); an accepted flush
\* through either interface delivers what was written through both, in write order.
C13_OneState ==
    [][\A w \in Writers :
        /\ (last'.op = "write" /\ last'.w = w)
           => /\ buf'[w] = poll_write(w, last'.arg).buf
              /\ last'.res = poll_write(w, last'.arg).res
              /\ last'.n = poll_write(w, last'.arg).n
        /\ (last'.op = "poll_write" /\ last'.w = w)
           => /\ buf'[w] = write(w, last'.arg).buf
              /\ last'.res = write(w, last'.arg).res
              /\ last'.n = write(w, last'.arg).n
        /\ (last'.op = "flush" /\ last'.w = w)
           => /\ buf'[w] = poll_flush(w).buf
              /\ queue' = poll_flush(w).queue
              /\ last'.tag = poll_flush(w).tag
              /\ IF last'.tag = SendFull
                 THEN last'.res = Ok /\ poll_flush(w).res = Pending
                 ELSE last'.res = poll_flush(w).res
        /\ (last'.op = "poll_flush" /\ last'.w = w)
           => /\ buf'[w] = flush(w).buf
              /\ queue' = flush(w).queue
              /\ last'.tag = flush(w).tag
              /\ IF last'.tag = SendFull
                 THEN last'.res = Pending /\ flush(w).res = Ok
                 ELSE last'.res = flush(w).res
        /\ (last'.op \in FlushCalls /\ last'.w = w /\ last'.tag = SendOk)
           => queue' = Append(queue, unsent[w])]_vars

\* a blocking flush of <<2, 1>> on a full channel: Ok where poll_flush says Pending
C13_Witness ==
    /\ last.op = "flush" /\ last.tag = SendFull /\ last.res = Ok
    /\ buf[last.w] = <<2, 1>>
    /\ ~closed /\ Len(queue) = Cap

\* C14: a writer's buffer holds only bytes written after the writer's most recent
\* flush attempt, accepted or not. Right after an attempt nothing has been written
\* since, so every attempt leaves the buffer empty, and between attempts the buffer
\* only grows by what is written.
C14_OnlySinceLastAttempt ==
    [][\A w \in Writers :
        /\ (last'.w = w /\ last'.tag \in {SendOk, SendFull, SendClosed}) => buf'[w] = <<>>
        /\ (last'.w = w /\ last'.tag = NoSend /\ last'.op \in WriteCalls \cup {"encode"})
           => buf'[w] = buf[w] \o last'.arg]_vars

\* C14 as amended: the buffer holds exactly what was written to the writer since its
\* most recent flush attempt that the channel accepted or found closed; an attempt
\* that finds the channel full leaves the buffer whole.
C14_OnlySinceLastTaken == \A w \in Writers : buf[w] = unsent[w]

\* after an attempt on a full channel the buffer still holds <<1, 2>>, written before
C14_Witness ==
    /\ last.tag = SendFull /\ retained[last.w] = [full |-> TRUE, bytes |-> <<1, 2>>]
    /\ buf[last.w] = <<1, 2>> /\ unsent[last.w] = <<1, 2>>

\* C15: with several writers on one channel, a call on one writer leaves the buffer
\* of every other writer as it was, and every element the channel takes in is the
\* buffer of the one writer that sent it (with what its encode just appended), never
\* bytes of two writers.
C15_BuffersAreOwn ==
    [][/\ \A w \in Writers : last'.w # w => buf'[w] = buf[w]
       /\ Len(queue') > Len(queue)
          => /\ last'.w \in Writers
             /\ queue' = Append(queue, buf[last'.w] \o last'.arg)]_vars

\* writer 2 flushed its <<2>> while writer 1 held <<1>>: the element is <<2>> alone
C15_Witness ==
    /\ last.op \in SendCalls /\ last.w = 2 /\ last.tag = SendOk
    /\ queue # <<>> /\ queue[Len(queue)] = <<2>>
    /\ buf[1] = <<1>> /\ buf[2] = <<>>

\* C16: an encode whose encoder fails leaves in the buffer what the encoder appended
\* before it failed, after what the buffer held; these bytes count as written, and the
\* next accepted flush or encode sends them in their place, ahead of all later bytes.
C16_NoRollback ==
    [][\A w \in Writers :
        /\ (last'.op = "encode" /\ last'.w = w /\ last'.enc # Ok)
           => /\ buf'[w] = buf[w] \o last'.arg
              /\ unsent'[w] = unsent[w] \o last'.arg
              /\ buf'[w] = unsent'[w]
        /\ (last'.w = w /\ last'.tag = SendOk)
           => /\ queue' = Append(queue, unsent[w] \o last'.arg)
              /\ buf'[w] = <<>>]_vars

\* the encoder appended <<2>> behind <<1>> and failed: the buffer holds <<1, 2>>
C16_Witness ==
    /\ last.op = "encode" /\ last.enc \in EncodeErrors /\ last.arg = <<2>>
    /\ buf[last.w] = <<1, 2>> /\ unsent[last.w] = <<1, 2>>

\* C17: an encode whose encoder succeeds does what write of the encoded bytes followed
\* by flush does. On a full channel it returns Ok, sends nothing and keeps the bytes
\* behind what the buffer held; when the channel takes the element, it is one element
\* made of what was retained followed by the new message.
C17_EncodeIsWriteFlush ==
    [][\A w \in Writers :
        (last'.op = "encode" /\ last'.w = w /\ last'.enc = Ok)
        => LET f == flush_buf(write(w, last'.arg).buf)
           IN  /\ buf'[w] = f.buf
               /\ queue' = f.queue
               /\ last'.res = f.res
               /\ last'.tag = f.tag
               /\ (~closed /\ Len(queue) >= Cap)
                  => /\ last'.res = Ok
                     /\ queue' = queue
                     /\ buf'[w] = buf[w] \o last'.arg
               /\ (~closed /\ Len(queue) < Cap)
                  => /\ queue' = Append(queue, unsent[w] \o last'.arg)
                     /\ retained[w].full => queue' = Append(queue, retained[w].bytes \o last'.arg)
                     /\ buf'[w] = <<>>]_vars

\* an encode of <<2>> went out as one element with the <<1>> retained before it
C17_Witness ==
    /\ last.op = "encode" /\ last.enc = Ok /\ last.kept /\ last.tag = SendOk
    /\ last.arg = <<2>> /\ last.res = Ok
    /\ queue # <<>> /\ queue[Len(queue)] = <<1, 2>>
    /\ buf[last.w] = <<>>

\* C18: as long as no flush of a writer has found the channel closed, what was
\* written to the writer and not yet accepted by the channel is exactly its buffer,
\* and every element the channel accepts from it is exactly that; so the bytes written
\* are the accepted elements followed by the buffer, none lost, doubled or reordered.
C18_BytesConserved ==
    /\ [](\A w \in Writers : owed[w] # Lost => buf[w] = owed[w].bytes)
    /\ [][\A w \in Writers :
            (last'.w = w /\ last'.tag = SendOk)
            => /\ owed[w] # Lost
               /\ queue' = Append(queue, owed[w].bytes \o last'.arg)
               /\ owed'[w] = Owes(<<>>)]_vars

\* the only writer had an empty batch and then <<1>> accepted and has written <<2>>
\* since: the bytes written, <<1, 2>>, are the elements followed by the buffer
C18_Witness ==
    /\ channel[2] = NoChannel /\ ~closed
    /\ last.op \in WriteCalls /\ last.arg = <<2>>
    /\ queue = <<<<>>, <<1>>>>
    /\ buf[1] = <<2>> /\ owed[1] = Owes(<<2>>)

\* C19: flush(), poll_flush() and poll_close() make their send attempt on an empty
\* buffer too: an open channel with room gets one more element, of length zero, which
\* takes a slot and which the consumer receives like any other; a full channel makes
\* poll_flush and poll_close answer Pending (flush Ok) and stays as it was.
C19_EmptyFlushSends ==
    [][/\ \A w \in Writers :
            (last'.op \in SendCalls /\ last'.w = w /\ buf[w] = <<>>)
            => /\ last'.tag # NoSend
               /\ (~closed /\ Len(queue) < Cap)
                  => /\ queue' = Append(queue, <<>>)
                     /\ Len(queue') = Len(queue) + 1
                     /\ last'.res = Ok
               /\ (~closed /\ Len(queue) >= Cap)
                  => /\ queue' = queue
                     /\ last'.res = IF last'.op = "flush" THEN Ok ELSE Pending
       /\ last'.op = "recv" => last'.arg = Head(queue) /\ queue' = Tail(queue)]_vars

\* two flushes of nothing filled the channel; the consumer received the first element,
\* of length zero, and the second one waits
C19_Witness ==
    /\ last.op = "recv" /\ last.arg = <<>>
    /\ queue = <<<<>>>>
====
